---- MODULE Spec2Model ----
(***************************************************************************)
(* KIRIU line-load optimizer: a state-machine model of                     *)
(*   - the capacity normalizers (model.py, excel_output.py, api.py),       *)
(*   - LineOptimizer.__init__ / build_model / solve (model.py),            *)
(*   - run_with_template's capacity hand-over (main.py, input_template.py).*)
(* The CP-SAT solver is an external library: it is modelled by its         *)
(* contract (any assignment satisfying the constraints build_model added;  *)
(* a minimum of the objective when the status is OPTIMAL).                 *)
(***************************************************************************)
EXTENDS Integers, Sequences, FiniteSets, TLC

(***************************************************************************)
(* Bounds of the model.                                                    *)
(***************************************************************************)
\* The planning horizon. The code's horizon is 12 months (range(12), [..]*12,
\* [:12]); the model scales every one of these to NumMonths.
NumMonths == 2
\* Largest monthly demand of a part in the small inputs.
MaxDemand == 2
\* Largest capacity value given explicitly in the small inputs.
MaxCap == 2
\* The quantity e of the chained parts (SpecChain): large enough for a
\* quantity difference to outweigh one use_sub flag.
BigQty == 101

(***************************************************************************)
(* config.py                                                               *)
(***************************************************************************)
None == "None"

DISC_LINES == <<"4915", "4919", "4927", "4928", "4934", "4935", "4945", "4G01", "4J01">>

LineSet == {DISC_LINES[i] : i \in 1..Len(DISC_LINES)}

DEFAULT_CAPACITIES ==
    [l \in LineSet |->
        CASE l = "4915" -> 70000
          [] l = "4919" -> 80000
          [] l = "4927" -> 40000
          [] l = "4928" -> 40000
          [] l = "4934" -> 50000
          [] l = "4935" -> 85000
          [] l = "4945" -> 50000
          [] l = "4G01" -> 50000
          [] l = "4J01" -> 10000]

WEIGHT_SUB_USE == 100
WEIGHT_SUB_QTY == 1
\* model.py: the local WEIGHT_UNMET of build_model
WEIGHT_UNMET == 100000

LOAD_RATE_PATTERNS == <<100, 90, 80>>

Months == 1..NumMonths

(***************************************************************************)
(* Values.  A capacity given for a line is an int or a list of ints        *)
(* (isinstance(cap, list)); the two are kept apart by a tag.               *)
(***************************************************************************)
Scalar(c) == [isList |-> FALSE, scalar |-> c, list |-> <<>>]
List(s) == [isList |-> TRUE, scalar |-> 0, list |-> s]

\* [v] * n
Repeat(v, n) == [i \in 1..n |-> v]

\* s[:n]
Take(s, n) == SubSeq(s, 1, IF Len(s) < n THEN Len(s) ELSE n)

RECURSIVE SumSeq(_)
SumSeq(s) == IF s = <<>> THEN 0 ELSE s[1] + SumSeq(Tail(s))

RECURSIVE SumOver(_, _)
\* sum of f[k] over the finite set S
SumOver(f, S) ==
    IF S = {} THEN 0
    ELSE LET k == CHOOSE e \in S : TRUE IN f[k] + SumOver(f, S \ {k})

MaxOf(S) == CHOOSE v \in S : \A w \in S : w <= v
MinOf(S) == CHOOSE v \in S : \A w \in S : v <= w

\* c * rate rounded up instead of truncated
IntTimesRateUp(c, pct) == -((-(c * pct)) \div 100)

\* int(c * rate) for rate = pct/100: Python's int() truncates toward zero.
IntTimesRate(c, pct) ==
    IF c * pct >= 0 THEN (c * pct) \div 100 ELSE -((-(c * pct)) \div 100)

\* floor(c * rate), the ceiling the specification states.
FloorTimesRate(c, pct) == (c * pct) \div 100

(***************************************************************************)
(* The capacity normalizers.  Each returns [ok, caps]: ok = FALSE stands   *)
(* for the IndexError of cap[-1] on an empty list.                         *)
(***************************************************************************)
\* capacities.get(line, DEFAULT_CAPACITIES.get(line, 0))
CapGet(capacities, line) ==
    IF line \in DOMAIN capacities THEN capacities[line]
    ELSE Scalar(DEFAULT_CAPACITIES[line])

\* (cap + [cap[-1]] * 12)[:12], for a non-empty list
PadTrunc(cap) == Take(cap \o Repeat(cap[Len(cap)], NumMonths), NumMonths)

\* model.py LineOptimizer._normalize_capacities, one line
ModelNormalizeLine(cap) ==
    IF cap.isList
    THEN IF Len(cap.list) = NumMonths THEN [ok |-> TRUE, v |-> cap.list]
         ELSE IF cap.list = <<>> THEN [ok |-> FALSE, v |-> <<>>]
         ELSE [ok |-> TRUE, v |-> PadTrunc(cap.list)]
    ELSE [ok |-> TRUE, v |-> Repeat(cap.scalar, NumMonths)]

\* excel_output.py _normalize_capacities and api.py normalize_caps, one line
ReportNormalizeLine(cap) ==
    IF cap.isList
    THEN IF cap.list # <<>> THEN [ok |-> TRUE, v |-> PadTrunc(cap.list)]
         ELSE [ok |-> TRUE, v |-> Repeat(0, NumMonths)]
    ELSE [ok |-> TRUE, v |-> Repeat(cap.scalar, NumMonths)]

LineOptimizer_normalize_capacities(capacities) ==
    LET r == [l \in LineSet |-> ModelNormalizeLine(CapGet(capacities, l))]
    IN [ok |-> \A l \in LineSet : r[l].ok, caps |-> [l \in LineSet |-> r[l].v]]

excel_normalize_capacities(capacities) ==
    LET r == [l \in LineSet |-> ReportNormalizeLine(CapGet(capacities, l))]
    IN [ok |-> \A l \in LineSet : r[l].ok, caps |-> [l \in LineSet |-> r[l].v]]

api_normalize_caps(capacities) ==
    LET r == [l \in LineSet |-> ReportNormalizeLine(CapGet(capacities, l))]
    IN [ok |-> \A l \in LineSet : r[l].ok, caps |-> [l \in LineSet |-> r[l].v]]

(***************************************************************************)
(* State.                                                                  *)
(***************************************************************************)
VARIABLES
    pc,            \* where the invocation stands: "template", "new", "constructed",
                   \* "built", "solved" (OPTIMAL/FEASIBLE), "failed" (any other
                   \* status), "raised" (an exception left optimize())
    specs,         \* optimize() argument: part -> PartSpec
    demands,       \* optimize() argument: part -> monthly_demand
    capsIn,        \* optimize() argument: line -> int | list
    rate,          \* optimize() argument load_rate_limit, in percent
    capacities,    \* self.capacities
    x,             \* self.x: (part, line, month) -> bounds of the IntVar
    use_sub,       \* self.use_sub: (part, month) -> bounds of the BoolVar
    unmet_demand,  \* self.unmet_demand: (part, month) -> bounds of the IntVar
    M,             \* build_model's Big-M
    sol,           \* the values the solver holds for the variables
    result,        \* the OptimizationResult returned
    sheet,         \* template mode: the capacity sheet, line -> 12 monthly cells
    rateIdx,       \* template mode: position in LOAD_RATE_PATTERNS
    xlCaps,        \* what excel_output._normalize_capacities returned
    apiCaps,       \* what api.py normalize_caps returned
    first,         \* what an earlier optimize() call of the same caller built and
                   \* returned, kept for comparison with the present call
    request,       \* what a caller of optimize() was handed: the endpoint or
                   \* mode, the part rows, the capacities, the load rates
    response,      \* what an API endpoint returns
    other,         \* a second invocation of optimize() that is not running at
                   \* the moment: its position, arguments and LineOptimizer
    plan_infos     \* what load_production_plan returned beside the demands:
                   \* part -> the line ids of the plan

vars == <<pc, specs, demands, capsIn, rate, capacities, x, use_sub, unmet_demand,
          M, sol, result, sheet, rateIdx, xlCaps, apiCaps, first, request, response,
          other, plan_infos>>

\* float | None: a sequence of at most one value
NoValue == <<>>

NoResult ==
    [status |-> "", objective_value |-> NoValue, allocation |-> <<>>,
     line_loads |-> <<>>, overflow |-> <<>>, sub_line_usage |-> <<>>,
     unmet_demand |-> <<>>]

NoSol == [x |-> <<>>, unmet |-> <<>>, use_sub |-> <<>>]

NotRun == [ok |-> FALSE, caps |-> <<>>, done |-> FALSE]

\* no earlier call
NoCall ==
    [done |-> FALSE, mode |-> "", ceilings |-> <<>>, feas |-> {}, M |-> 0,
     result |-> NoResult, sol |-> NoSol]

\* no request
NoRequest == [endpoint |-> "", rows |-> <<>>, capacities |-> <<>>, rates |-> <<>>]

\* no response yet
NoResponse == [done |-> FALSE]

\* no second invocation
NoOther == [active |-> FALSE]

\* a normalizer's return value n, recorded
Ran(n) == [ok |-> n.ok, caps |-> n.caps, done |-> TRUE]

PartSpec(main, sub1, sub2) == [main_line |-> main, sub1_line |-> sub1, sub2_line |-> sub2]

(***************************************************************************)
(* model.py: LineOptimizer                                                 *)
(***************************************************************************)
\* Python truthiness of a line id (str | None)
IsSet(l) == l # None

InSeq(l, s) == \E i \in 1..Len(s) : s[i] = l

SeqSet(s) == {s[i] : i \in 1..Len(s)}

\* _get_eligible_lines without the "not in lines" tests
get_eligible_lines_all(spec) ==
    SelectSeq(<<spec.main_line, spec.sub1_line, spec.sub2_line>>, IsSet)

\* LineOptimizer._get_eligible_lines
get_eligible_lines(spec) ==
    LET l1 == IF IsSet(spec.main_line) THEN <<spec.main_line>> ELSE <<>>
        l2 == IF IsSet(spec.sub1_line) /\ ~InSeq(spec.sub1_line, l1)
              THEN Append(l1, spec.sub1_line) ELSE l1
        l3 == IF IsSet(spec.sub2_line) /\ ~InSeq(spec.sub2_line, l2)
              THEN Append(l2, spec.sub2_line) ELSE l2
    IN l3

\* LineOptimizer.get_capacity: self.capacities.get(line, [0] * 12)[month]
get_capacity(line, month) ==
    IF line \in DOMAIN capacities THEN capacities[line][month] ELSE 0

\* the caller's mapping with the default of every absent line written into it
CapacitiesWithDefaults(caps) == [l \in LineSet |-> CapGet(caps, l)]

\* The caller's capacities mapping once __init__ has returned: the mapping is
\* read with .get() into a dict of the optimizer's own, a list of another
\* length is padded into a new list, and the default table is copied before
\* it is used, so the caller's mapping holds what it held.
CapacitiesAfterInit(caps) == caps

\* LineOptimizer.__init__: capacities or DEFAULT_CAPACITIES.copy(), normalized
Construct ==
    /\ pc = "new"
    /\ capsIn' = CapacitiesAfterInit(capsIn)
    /\ LET arg == IF DOMAIN capsIn = {}
                  THEN [l \in LineSet |-> Scalar(DEFAULT_CAPACITIES[l])]
                  ELSE capsIn
           n == LineOptimizer_normalize_capacities(arg)
       IN IF n.ok
          THEN /\ capacities' = n.caps
               /\ pc' = "constructed"
          ELSE /\ capacities' = capacities
               /\ pc' = "raised"
    /\ UNCHANGED <<request, response, other, plan_infos, first, specs, demands, rate, x, use_sub,
                   unmet_demand, M, sol, result, sheet, rateIdx, xlCaps, apiCaps>>

\* The parts build_model creates variables for: in demands, with a spec,
\* with at least one eligible line.
Modelled(p) ==
    /\ p \in DOMAIN demands
    /\ p \in DOMAIN specs
    /\ get_eligible_lines(specs[p]) # <<>>

\* max(demand.monthly_demand) if demand.monthly_demand else 0
max_demand(p) == IF demands[p] = <<>> THEN 0 ELSE MaxOf(SeqSet(demands[p]))

\* build_model, "決定変数": the variables and their bounds
BuildX ==
    LET keysOf(p) == {<<p, l, m>> : l \in SeqSet(get_eligible_lines(specs[p])), m \in Months}
        mine == UNION {keysOf(p) : p \in {q \in DOMAIN demands : Modelled(q)}}
    IN [k \in mine |-> [lo |-> 0, hi |-> max_demand(k[1])]]

BuildUseSub ==
    LET keys == {<<p, m>> : p \in DOMAIN demands, m \in Months}
        mine == {k \in keys : /\ Modelled(k[1])
                              /\ IsSet(specs[k[1]].main_line)
                              /\ Len(get_eligible_lines(specs[k[1]])) > 1}
    IN [k \in mine |-> [lo |-> 0, hi |-> 1]]

BuildUnmet ==
    LET keys == {<<p, m>> : p \in DOMAIN demands, m \in Months}
        mine == {k \in keys : Modelled(k[1])}
    IN [k \in mine |-> [lo |-> 0, hi |-> demands[k[1]][k[2]]]]

\* M taken as a tenth of the largest capacity instead of ten times
BigMTenth == MaxOf({capacities[l][m] : l \in DOMAIN capacities, m \in Months}) \div 10

\* max_cap = max(max(caps) for caps in self.capacities.values()); M = max_cap * 10
BigM == 10 * MaxOf({capacities[l][m] : l \in DOMAIN capacities, m \in Months})

BuildModel ==
    /\ pc = "constructed"
    /\ x' = BuildX
    /\ use_sub' = BuildUseSub
    /\ unmet_demand' = BuildUnmet
    /\ M' = BigM
    /\ pc' = "built"
    /\ UNCHANGED <<request, response, other, plan_infos, first, specs, demands, capsIn, rate, capacities, sol, result, sheet,
                   rateIdx, xlCaps, apiCaps>>

(***************************************************************************)
(* build_model, "制約条件" and "目的関数": the constraints and the          *)
(* objective, as predicates and terms over an assignment                   *)
(*   a = [x, unmet, use_sub]  (a value for each variable).                 *)
(* Each operator is one model.Add(...) of the code.                        *)
(***************************************************************************)
\* constraint 1 with the equality weakened to "at most the demand"
DemandBalanceAtLoose(a, p, m) ==
    LET prod == {l \in SeqSet(get_eligible_lines(specs[p])) : <<p, l, m>> \in DOMAIN x}
    IN prod # {} =>
         SumOver([l \in prod |-> a.x[<<p, l, m>>]], prod) + a.unmet[<<p, m>>]
            <= demands[p][m]

\* constraint 1 with the equality weakened to "at least the demand"
DemandBalanceAtOver(a, p, m) ==
    LET prod == {l \in SeqSet(get_eligible_lines(specs[p])) : <<p, l, m>> \in DOMAIN x}
    IN prod # {} =>
         SumOver([l \in prod |-> a.x[<<p, l, m>>]], prod) + a.unmet[<<p, m>>]
            >= demands[p][m]

\* 制約1: sum(prod_vars) + unmet == month_demand, for (part, month)
DemandBalanceAt(a, p, m) ==
    LET prod == {l \in SeqSet(get_eligible_lines(specs[p])) : <<p, l, m>> \in DOMAIN x}
    IN prod # {} =>
         SumOver([l \in prod |-> a.x[<<p, l, m>>]], prod) + a.unmet[<<p, m>>]
            = demands[p][m]

\* constraint 2 as a strict inequality
CapacityAtStrict(a, line, m) ==
    LET capacity == IntTimesRate(get_capacity(line, m), rate)
        line_prod == {p \in DOMAIN demands : <<p, line, m>> \in DOMAIN x}
    IN line_prod # {} =>
         SumOver([p \in line_prod |-> a.x[<<p, line, m>>]], line_prod) < capacity

\* constraint 2 with the load rate limit left out
CapacityAtNoRate(a, line, m) ==
    LET capacity == get_capacity(line, m)
        line_prod == {p \in DOMAIN demands : <<p, line, m>> \in DOMAIN x}
    IN line_prod # {} =>
         SumOver([p \in line_prod |-> a.x[<<p, line, m>>]], line_prod) <= capacity

\* 制約2: sum(line_prod) <= int(capacity * load_rate_limit), for (line, month)
CapacityAt(a, line, m) ==
    LET capacity == IntTimesRate(get_capacity(line, m), rate)
        line_prod == {p \in DOMAIN demands : <<p, line, m>> \in DOMAIN x}
    IN line_prod # {} =>
         SumOver([p \in line_prod |-> a.x[<<p, line, m>>]], line_prod) <= capacity

\* constraint 3 left out
LinkageAtNone(a, p, m) == TRUE

\* 制約3: x[part, sub_line, month] <= M * use_sub[part, month]
LinkageAt(a, p, m) ==
    (p \in DOMAIN specs /\ specs[p].main_line # None) =>
        LET sub_lines == {l \in SeqSet(get_eligible_lines(specs[p])) : l # specs[p].main_line}
        IN \A sub_line \in sub_lines :
              (<<p, sub_line, m>> \in DOMAIN x /\ <<p, m>> \in DOMAIN use_sub) =>
                  a.x[<<p, sub_line, m>>] <= M * a.use_sub[<<p, m>>]

\* every variable inside its NewIntVar / NewBoolVar bounds
InBounds(a) ==
    /\ \A k \in DOMAIN a.x : x[k].lo <= a.x[k] /\ a.x[k] <= x[k].hi
    /\ \A k \in DOMAIN a.unmet :
          unmet_demand[k].lo <= a.unmet[k] /\ a.unmet[k] <= unmet_demand[k].hi
    /\ \A k \in DOMAIN a.use_sub :
          use_sub[k].lo <= a.use_sub[k] /\ a.use_sub[k] <= use_sub[k].hi

\* a satisfies everything build_model added to self.model
Feasible(a) ==
    /\ DOMAIN a.x = DOMAIN x
    /\ DOMAIN a.unmet = DOMAIN unmet_demand
    /\ DOMAIN a.use_sub = DOMAIN use_sub
    /\ InBounds(a)
    /\ \A k \in DOMAIN unmet_demand : DemandBalanceAt(a, k[1], k[2])
    /\ \A line \in LineSet : \A m \in Months : CapacityAt(a, line, m)
    /\ \A p \in DOMAIN demands : \A m \in Months : LinkageAt(a, p, m)

\* the unmet term left out of the objective
Tier1Zero(a) == 0

\* the unmet term weighted like a unit of sub-line production
Tier1Light(a) == SumOver([k \in DOMAIN a.unmet |-> WEIGHT_SUB_QTY * a.unmet[k]], DOMAIN a.unmet)

\* 最優先: WEIGHT_UNMET * unmet
Tier1(a) == SumOver([k \in DOMAIN a.unmet |-> WEIGHT_UNMET * a.unmet[k]], DOMAIN a.unmet)

\* 第1優先: WEIGHT_SUB_USE * use_sub
Tier2(a) ==
    SumOver([k \in DOMAIN a.use_sub |-> WEIGHT_SUB_USE * a.use_sub[k]], DOMAIN a.use_sub)

\* 第2優先: for sub_line in [spec.sub1_line, spec.sub2_line]: WEIGHT_SUB_QTY * x
\* (the terms of one part)
Tier3Part(a, p) ==
    LET sub_lines == <<specs[p].sub1_line, specs[p].sub2_line>>
        terms == {t \in (1..2) \X Months :
                     /\ IsSet(sub_lines[t[1]])
                     /\ <<p, sub_lines[t[1]], t[2]>> \in DOMAIN a.x}
    IN SumOver([t \in terms |-> WEIGHT_SUB_QTY * a.x[<<p, sub_lines[t[1]], t[2]>>]], terms)

\* for part_num in self.demands: skip when spec is None or spec.main_line is None
Tier3(a) ==
    LET ps == {p \in DOMAIN demands : p \in DOMAIN specs /\ specs[p].main_line # None}
    IN SumOver([p \in ps |-> Tier3Part(a, p)], ps)

Objective(a) == Tier1(a) + Tier2(a) + Tier3(a)

(***************************************************************************)
(* The solver (ortools CP-SAT, not part of the repository), by contract.   *)
(* The feasible assignments are enumerated constraint by constraint: the   *)
(* choices of one (part, month) under the constraints local to it, joined  *)
(* over the parts of a month under the capacity constraints, joined over   *)
(* the months.  Every model.Add of build_model names variables of a single *)
(* month, so the join is the set {a : Feasible(a)} (SolIsFeasible below).  *)
(***************************************************************************)
\* The integers an x variable is tried at.  In the small inputs every bound
\* is at most MaxDemand and the window is the whole range lo..hi; in the
\* chain scenario it is the band of values the scenario's vertices use.
Levels == (0..MaxDemand) \cup (BigQty..(BigQty + 2))

Window(b) == {v \in Levels : b.lo <= v /\ v <= b.hi}

RECURSIVE DepProd(_)
\* the functions f on DOMAIN c with f[k] \in c[k]
DepProd(c) ==
    IF DOMAIN c = {} THEN {<<>>}
    ELSE LET k == CHOOSE e \in DOMAIN c : TRUE
             rest == DepProd([j \in (DOMAIN c) \ {k} |-> c[j]])
         IN {(k :> v) @@ f : v \in c[k], f \in rest}

Join(a, b) ==
    [x |-> a.x @@ b.x, unmet |-> a.unmet @@ b.unmet, use_sub |-> a.use_sub @@ b.use_sub]

RECURSIVE Joined(_)
\* one choice from each c[k], joined
Joined(c) ==
    IF DOMAIN c = {} THEN {NoSol}
    ELSE LET k == CHOOSE e \in DOMAIN c : TRUE
             rest == Joined([j \in (DOMAIN c) \ {k} |-> c[j]])
         IN {Join(a, b) : a \in c[k], b \in rest}

ModelledParts == {k[1] : k \in DOMAIN unmet_demand}

PartMonthChoices(p, m) ==
    LET xk == {k \in DOMAIN x : k[1] = p /\ k[3] = m}
        fk == {k \in DOMAIN use_sub : k = <<p, m>>}
        xs == DepProd([k \in xk |-> Window(x[k])])
        us(f) == {u \in unmet_demand[<<p, m>>].lo .. unmet_demand[<<p, m>>].hi :
                     DemandBalanceAt([x |-> f, unmet |-> (<<p, m>> :> u)], p, m)}
        bs(f) == {b \in DepProd([k \in fk |-> use_sub[k].lo .. use_sub[k].hi]) :
                     LinkageAt([x |-> f, use_sub |-> b], p, m)}
    IN UNION {{[x |-> f, unmet |-> (<<p, m>> :> u), use_sub |-> b] : u \in us(f), b \in bs(f)}
              : f \in xs}

MonthChoices(m) ==
    {a \in Joined([p \in ModelledParts |-> PartMonthChoices(p, m)]) :
        \A line \in LineSet : CapacityAt(a, line, m)}

FeasibleSet == Joined([m \in Months |-> MonthChoices(m)])

(***************************************************************************)
(* solve(), "結果を抽出": the OptimizationResult read off the solved values *)
(***************************************************************************)
\* monthly = [Value(x[part, line, month]) if the key exists else 0]
Monthly(a, p, l) ==
    [m \in Months |-> IF <<p, l, m>> \in DOMAIN x THEN a.x[<<p, l, m>>] ELSE 0]

ExtractAllocation(a) ==
    [p \in {q \in DOMAIN demands : q \in DOMAIN specs} |->
        LET kept == {l \in SeqSet(get_eligible_lines(specs[p])) : SumSeq(Monthly(a, p, l)) > 0}
        IN [l \in kept |-> Monthly(a, p, l)]]

\* line_loads[line][month] += qty raises KeyError for a line outside DISC_LINES
ExtractRaises(allocation) ==
    \E p \in DOMAIN allocation : \E l \in DOMAIN allocation[p] : l \notin LineSet

ExtractLineLoads(allocation) ==
    [line \in LineSet |->
        [m \in Months |->
            LET ps == {p \in DOMAIN allocation : line \in DOMAIN allocation[p]}
            IN SumOver([p \in ps |-> allocation[p][line][m]], ps)]]

\* the unmet vectors of all parts, the all-zero ones included
ExtractUnmetAll(a) ==
    [p \in DOMAIN demands |->
        [m \in Months |-> IF <<p, m>> \in DOMAIN unmet_demand THEN a.unmet[<<p, m>>] ELSE 0]]

ExtractUnmet(a) ==
    LET monthly_unmet(p) ==
            [m \in Months |-> IF <<p, m>> \in DOMAIN unmet_demand THEN a.unmet[<<p, m>>] ELSE 0]
        kept == {p \in DOMAIN demands : SumSeq(monthly_unmet(p)) > 0}
    IN [p \in kept |-> monthly_unmet(p)]

\* used_lines: the main line inserted first, the others appended in dict order
ExtractSubUsage(allocation) ==
    [p \in {q \in DOMAIN demands : q \in DOMAIN specs} |->
        [m \in Months |->
            LET used(l) == l \in DOMAIN allocation[p] /\ allocation[p][l][m] > 0
                el == get_eligible_lines(specs[p])
                mains == SelectSeq(el, LAMBDA l : used(l) /\ l = specs[p].main_line)
                others == SelectSeq(el, LAMBDA l : used(l) /\ l # specs[p].main_line)
            IN mains \o others]]

Success(status, a) ==
    LET allocation == ExtractAllocation(a)
    IN [status |-> status,
        objective_value |-> <<Objective(a)>>,
        allocation |-> allocation,
        line_loads |-> ExtractLineLoads(allocation),
        overflow |-> [line \in LineSet |-> Repeat(0, NumMonths)],
        sub_line_usage |-> ExtractSubUsage(allocation),
        unmet_demand |-> ExtractUnmet(a)]

\* the result of a status other than OPTIMAL / FEASIBLE: unmet_demand is left
\* at its default, None
Failure(status) ==
    [status |-> status, objective_value |-> NoValue, allocation |-> <<>>,
     line_loads |-> <<>>, overflow |-> <<>>, sub_line_usage |-> <<>>,
     unmet_demand |-> None]

Returned(status, a) ==
    /\ sol' = a
    /\ IF ExtractRaises(ExtractAllocation(a))
       THEN pc' = "raised" /\ result' = result
       ELSE pc' = "solved" /\ result' = Success(status, a)

\* nothing to add to the objective values of a non-empty feasible set; an
\* empty one has no minimum, and 0 stands in for it
Bottom(feas) == IF feas = {} THEN {0} ELSE {}

\* LineOptimizer.solve
Solve ==
    /\ pc = "built"
    /\ \E feas \in {FeasibleSet} :
          \/ \E best \in {MinOf({Objective(b) : b \in feas} \cup Bottom(feas))} :
                \E a \in feas : Objective(a) = best /\ Returned("OPTIMAL", a)
          \/ \E a \in feas : Returned("FEASIBLE", a)
          \/ \E st \in {"UNKNOWN"} \cup (IF feas = {} THEN {"INFEASIBLE"} ELSE {}) :
                sol' = sol /\ pc' = "failed" /\ result' = Failure(st)
    /\ UNCHANGED <<request, response, other, plan_infos, first, specs, demands, capsIn, rate, capacities, x, use_sub, unmet_demand,
                   M, sheet, rateIdx, xlCaps, apiCaps>>

(***************************************************************************)
(* visualize.py generate_text_report, "サブライン使用状況"                  *)
(***************************************************************************)
\* if len(month_lines) > 1: sub_usage_count += 1
CountsAsSubUse(month_lines) == Len(month_lines) > 1

\* the サブライン使用月数 of the report
sub_usage_count(res) ==
    Cardinality({k \in (DOMAIN res.sub_line_usage) \X Months :
                    CountsAsSubUse(res.sub_line_usage[k[1]][k[2]])})

(***************************************************************************)
(* Inputs of the small scenarios: two lines of the universe, parts A and B *)
(***************************************************************************)
L1 == DISC_LINES[1]
L2 == DISC_LINES[2]
L3 == DISC_LINES[3]
L4 == DISC_LINES[4]

LineChoice == {None, L1, L2}

\* every PartSpec over LineChoice, duplicates included
AllShapes == {PartSpec(a, b, c) : a \in LineChoice, b \in LineChoice, c \in LineChoice}

\* the shapes the solved scenarios use: no line, main only, main and one or
\* two subs, a repeated sub, a sub equal to the main line, subs without main
SolvedShapes ==
    {PartSpec(None, None, None), PartSpec(L1, None, None), PartSpec(L1, L2, None),
     PartSpec(L1, None, L2), PartSpec(L2, L1, None), PartSpec(L1, L2, L2),
     PartSpec(L1, L1, L2), PartSpec(L1, L1, None), PartSpec(None, L1, L2),
     PartSpec(None, L2, None)}

DemandVectors == [Months -> 0..MaxDemand]

\* a falling monthly list: MaxCap in the first month, 1 afterwards
FallingCaps == [m \in Months |-> IF m = 1 THEN MaxCap ELSE 1]

\* B: absent, a main-line-only part on L1, or a demand without a spec
BVariants == {"absent", "main", "nospec"}

SmallSpecs(shapeA, b) ==
    IF b = "main" THEN ("A" :> shapeA) @@ ("B" :> PartSpec(L1, None, None))
    ELSE ("A" :> shapeA)

SmallDemands(dA, b) ==
    IF b = "absent" THEN ("A" :> dA) ELSE ("A" :> dA) @@ ("B" :> Repeat(1, NumMonths))

SmallCaps ==
    {(L1 :> c1) @@ r2 :
        c1 \in {Scalar(-1), Scalar(1), Scalar(MaxCap), List(FallingCaps)},
        r2 \in {<<>>, (L2 :> Scalar(1))}}

Rates == {100, 50}

FreshRun ==
    /\ capacities = <<>>
    /\ x = <<>>
    /\ use_sub = <<>>
    /\ unmet_demand = <<>>
    /\ M = 0
    /\ sol = NoSol
    /\ result = NoResult
    /\ xlCaps = NotRun
    /\ apiCaps = NotRun
    /\ first = NoCall
    /\ plan_infos = <<>>

\* a fresh LineOptimizer, no request, no response, no second invocation
Fresh ==
    /\ FreshRun
    /\ request = NoRequest
    /\ response = NoResponse
    /\ other = NoOther

Init ==
    /\ pc = "new"
    /\ \E shapeA \in SolvedShapes, b \in BVariants, dA \in DemandVectors :
          /\ specs = SmallSpecs(shapeA, b)
          /\ demands = SmallDemands(dA, b)
    /\ capsIn \in SmallCaps
    /\ rate \in Rates
    /\ sheet = <<>>
    /\ rateIdx = 0
    /\ Fresh

Next == Construct \/ BuildModel \/ Solve

Spec == Init /\ [][Next]_vars

\* Every value the solver hands back satisfies all constraints at once.
SolIsFeasible == pc = "solved" => Feasible(sol)

(***************************************************************************)
(* Model building over every PartSpec shape (specification SpecShapes)     *)
(***************************************************************************)
InitShapes ==
    /\ pc = "new"
    /\ \E shapeA \in AllShapes, b \in BVariants, dA \in DemandVectors :
          /\ specs = SmallSpecs(shapeA, b)
          /\ demands = SmallDemands(dA, b)
    /\ capsIn \in {<<>>, (L1 :> Scalar(1))}
    /\ rate = 100
    /\ sheet = <<>>
    /\ rateIdx = 0
    /\ Fresh

NextShapes == Construct \/ BuildModel

SpecShapes == InitShapes /\ [][NextShapes]_vars

(***************************************************************************)
(* The three capacity normalizers on one input (specification SpecNorm)    *)
(***************************************************************************)
\* excel_output.py: create_*_sheet calls _normalize_capacities(capacities)
ExcelNormalize ==
    /\ ~xlCaps.done
    /\ xlCaps' = Ran(excel_normalize_capacities(capsIn))
    /\ UNCHANGED <<request, response, other, plan_infos, first, pc, specs, demands, capsIn, rate, capacities, x, use_sub,
                   unmet_demand, M, sol, result, sheet, rateIdx, apiCaps>>

\* api.py run_optimization: monthly_capacities = normalize_caps(capacities)
ApiNormalize ==
    /\ ~apiCaps.done
    /\ apiCaps' = Ran(api_normalize_caps(capsIn))
    /\ UNCHANGED <<request, response, other, plan_infos, first, pc, specs, demands, capsIn, rate, capacities, x, use_sub,
                   unmet_demand, M, sol, result, sheet, rateIdx, xlCaps>>

\* int | list[int] values: scalars, and lists of every length up to one more
\* than the horizon (empty, short, exact, long), negatives included
CapValues ==
    {Scalar(c) : c \in {-1, 0, MaxCap}}
      \cup {List(q) : q \in UNION {[1..n -> {-1, 1, MaxCap}] : n \in 0..(NumMonths + 1)}}

NormCaps ==
    {r1 @@ r2 :
        r1 \in {<<>>} \cup {(L1 :> c) : c \in CapValues},
        r2 \in {<<>>, (L2 :> Scalar(1)), (L2 :> List(<<MaxCap>>))}}

InitNorm ==
    /\ pc = "new"
    /\ specs = ("A" :> PartSpec(L1, L2, None))
    /\ demands = ("A" :> Repeat(1, NumMonths))
    /\ capsIn \in NormCaps
    /\ rate = 100
    /\ sheet = <<>>
    /\ rateIdx = 0
    /\ Fresh

NextNorm == Construct \/ ExcelNormalize \/ ApiNormalize

SpecNorm == InitNorm /\ [][NextNorm]_vars

(***************************************************************************)
(* Template mode, main.py run_with_template (specification SpecTemplate):  *)
(* the capacity sheet is read, one capacity per line is derived from it,   *)
(* and optimize() runs once per pattern of LOAD_RATE_PATTERNS.             *)
(***************************************************************************)
\* a cell of the capacity sheet: blank or an integer
Blank == <<>>
Cell(v) == <<v>>

\* int(val) if val else 0
CellInt(c) == IF c = Blank THEN 0 ELSE c[1]

\* input_template.load_input_config, one row of the sheet ライン能力:
\* a single value when all months are equal, else the monthly list
load_capacity_row(row) ==
    LET monthly_caps == [m \in Months |-> CellInt(row[m])]
    IN IF Cardinality(SeqSet(monthly_caps)) = 1 THEN Scalar(monthly_caps[1])
       ELSE List(monthly_caps)

\* run_with_template: max(caps) if isinstance(caps, list) else caps
template_capacity(caps) ==
    IF caps.isList THEN Scalar(MaxOf(SeqSet(caps.list))) ELSE caps

\* run_with_template up to the first pattern of the loop
LoadTemplate ==
    /\ pc = "template"
    /\ capsIn' = [l \in DOMAIN sheet |-> template_capacity(load_capacity_row(sheet[l]))]
    /\ rateIdx' = 1
    /\ rate' = LOAD_RATE_PATTERNS[1]
    /\ pc' = "new"
    /\ UNCHANGED <<request, response, other, plan_infos, first, specs, demands, capacities, x, use_sub, unmet_demand, M, sol,
                   result, sheet, xlCaps, apiCaps>>

\* for rate in LOAD_RATE_PATTERNS: the next pattern, with a new LineOptimizer
NextPattern ==
    /\ pc \in {"solved", "failed"}
    /\ rateIdx >= 1
    /\ rateIdx < Len(LOAD_RATE_PATTERNS)
    /\ rateIdx' = rateIdx + 1
    /\ rate' = LOAD_RATE_PATTERNS[rateIdx + 1]
    /\ pc' = "new"
    /\ capacities' = <<>>
    /\ x' = <<>>
    /\ use_sub' = <<>>
    /\ unmet_demand' = <<>>
    /\ M' = 0
    /\ sol' = NoSol
    /\ result' = NoResult
    /\ UNCHANGED <<request, response, other, plan_infos, first, specs, demands, capsIn, sheet, xlCaps, apiCaps>>

Cells == {Blank} \cup {Cell(v) : v \in 1..MaxCap}

\* the sheet has a row for L1, and with or without a row for L2
Sheets ==
    {(L1 :> r1) @@ r2 : r1 \in [Months -> Cells], r2 \in {<<>>, (L2 :> [m \in Months |-> Cell(1)])}}

InitTemplate ==
    /\ pc = "template"
    /\ sheet \in Sheets
    /\ \E shapeA \in {PartSpec(L1, None, None), PartSpec(L1, L2, None)}, dA \in DemandVectors :
          /\ specs = SmallSpecs(shapeA, "absent")
          /\ demands = SmallDemands(dA, "absent")
    /\ capsIn = <<>>
    /\ rate = 100
    /\ rateIdx = 0
    /\ Fresh

NextTemplate == LoadTemplate \/ Construct \/ BuildModel \/ Solve \/ NextPattern

SpecTemplate == InitTemplate /\ [][NextTemplate]_vars

(***************************************************************************)
(* Three parts chained over two tight main lines (specification SpecChain) *)
(*   A: main L1, sub L2;  B: main L2, sub L3;  C: main L1, sub L4          *)
(* with demands of BigQty + 1, BigQty + 2 and BigQty in the first month.   *)
(***************************************************************************)
FirstMonth(q) == [m \in Months |-> IF m = 1 THEN q ELSE 0]

ChainSpecs ==
    ("A" :> PartSpec(L1, L2, None)) @@ ("B" :> PartSpec(L2, L3, None))
        @@ ("C" :> PartSpec(L1, L4, None))

ChainDemands ==
    ("A" :> FirstMonth(BigQty + 1)) @@ ("B" :> FirstMonth(BigQty + 2))
        @@ ("C" :> FirstMonth(BigQty))

InitChain ==
    /\ pc = "new"
    /\ specs = ChainSpecs
    /\ demands = ChainDemands
    /\ capsIn \in {(L1 :> Scalar(BigQty)) @@ (L2 :> Scalar(c2)) : c2 \in {BigQty + 1, BigQty + 2}}
    /\ rate = 100
    /\ sheet = <<>>
    /\ rateIdx = 0
    /\ Fresh

SpecChain == InitChain /\ [][Next]_vars

(***************************************************************************)
(* Properties of a solved run (specification Spec)                         *)
(***************************************************************************)
Solved == pc = "solved"

\* what the returned result says part p produces on line l in month m
AllocationAt(p, l, m) ==
    IF p \in DOMAIN result.allocation /\ l \in DOMAIN result.allocation[p]
    THEN result.allocation[p][l][m] ELSE 0

\* what the returned result says part p leaves unmet in month m
UnmetAt(p, m) ==
    IF p \in DOMAIN result.unmet_demand THEN result.unmet_demand[p][m] ELSE 0

\* parts with a demand, a spec and at least one eligible line
PlacedParts ==
    {p \in DOMAIN demands : p \in DOMAIN specs /\ Len(get_eligible_lines(specs[p])) > 0}

\* C1: in an OPTIMAL or FEASIBLE result, for every part with a demand, a spec
\* and an eligible line, and every month, the allocation summed over the
\* part's eligible lines plus the unmet demand equals the demand.
C1_DemandBalance ==
    Solved =>
        \A p \in PlacedParts : \A m \in Months :
            LET el == SeqSet(get_eligible_lines(specs[p]))
            IN SumOver([l \in el |-> AllocationAt(p, l, m)], el) + UnmetAt(p, m)
                  = demands[p][m]

\* a solved run where one part is split over two lines and has unmet demand
C1_Witness ==
    /\ Solved
    /\ \E p \in PlacedParts :
          /\ p \in DOMAIN result.unmet_demand
          /\ Cardinality(DOMAIN result.allocation[p]) = 2

TotalUnmet(a) == SumOver([k \in DOMAIN a.unmet |-> a.unmet[k]], DOMAIN a.unmet)

FlagCount(a) == SumOver([k \in DOMAIN a.use_sub |-> a.use_sub[k]], DOMAIN a.use_sub)

\* C3: an OPTIMAL result has the least total unmet quantity of all feasible
\* assignments: no feasible assignment with less unmet has an objective that
\* is smaller or equal.
C3_UnmetFirst ==
    (Solved /\ result.status = "OPTIMAL") =>
        \A b \in FeasibleSet :
            /\ TotalUnmet(b) >= TotalUnmet(sol)
            /\ TotalUnmet(b) < TotalUnmet(sol) => Objective(b) > Objective(sol)

\* an OPTIMAL run that opens a sub line and still leaves demand unmet
C3_Witness ==
    /\ Solved
    /\ result.status = "OPTIMAL"
    /\ TotalUnmet(sol) > 0
    /\ FlagCount(sol) > 0

\* the production on the non-main eligible lines of part p
NonMainQty(a, p) ==
    LET ks == {k \in DOMAIN a.x : k[1] = p /\ k[2] # specs[p].main_line}
    IN SumOver([k \in ks |-> a.x[k]], ks)

\* C5: for every modelled part that has a main line, the part's share of the
\* objective's third term is WEIGHT_SUB_QTY times its production on the
\* eligible lines other than the main line, each unit counted once and no
\* unit of the main line counted.
C5_SubQtyTerm ==
    Solved =>
        \A p \in PlacedParts :
            IsSet(specs[p].main_line) =>
                Tier3Part(sol, p) = WEIGHT_SUB_QTY * NonMainQty(sol, p)

\* C7: once the optimizer is constructed, every normalized capacity value is
\* non-negative, and so is the Big-M built from them.
C7_Clamped ==
    pc \in {"constructed", "built", "solved", "failed"} =>
        /\ \A l \in DOMAIN capacities : \A m \in Months : capacities[l][m] >= 0
        /\ pc # "constructed" => M >= 0

(***************************************************************************)
(* Properties of model building (specification SpecShapes)                 *)
(***************************************************************************)
NoDuplicate(s) == \A i, j \in 1..Len(s) : s[i] = s[j] => i = j

IndexOf(l, s) == CHOOSE i \in 1..Len(s) : s[i] = l

\* C10: for every PartSpec the eligible list holds exactly the set lines of
\* the spec, without a duplicate, the main line (when set) first and
\* sub-line-1 before sub-line-2; the x variables of a part with a demand are
\* those of exactly the lines of its list, one per month.
C10_EligibleLines ==
    pc = "built" =>
        \A p \in DOMAIN specs :
            LET spec == specs[p]
                el == get_eligible_lines(spec)
            IN /\ SeqSet(el) = {spec.main_line, spec.sub1_line, spec.sub2_line} \ {None}
               /\ NoDuplicate(el)
               /\ IsSet(spec.main_line) => el[1] = spec.main_line
               /\ (/\ IsSet(spec.sub1_line) /\ IsSet(spec.sub2_line)
                   /\ spec.sub1_line # spec.sub2_line
                   /\ spec.sub1_line # spec.main_line
                   /\ spec.sub2_line # spec.main_line)
                     => IndexOf(spec.sub1_line, el) < IndexOf(spec.sub2_line, el)
               /\ p \in DOMAIN demands =>
                     {k \in DOMAIN x : k[1] = p} = {p} \X SeqSet(el) \X Months

\* a built model of a part whose sub-line-1 repeats its main line and whose
\* sub-line-2 is another line
C10_Witness ==
    /\ pc = "built"
    /\ specs["A"].main_line = L1
    /\ specs["A"].sub1_line = L1
    /\ specs["A"].sub2_line = L2
    /\ <<"A", L2, 1>> \in DOMAIN x

(***************************************************************************)
(* Properties of the normalizers (specification SpecNorm)                  *)
(***************************************************************************)
ModelNormalized == pc \in {"constructed", "raised"}

\* the vector the specification describes for a capacity value
ShapeOf(cap) ==
    IF ~cap.isList THEN Repeat(cap.scalar, NumMonths)
    ELSE IF Len(cap.list) >= NumMonths THEN SubSeq(cap.list, 1, NumMonths)
    ELSE [m \in Months |-> IF m <= Len(cap.list) THEN cap.list[m]
                           ELSE cap.list[Len(cap.list)]]

\* C6: for every capacities input LineOptimizer._normalize_capacities
\* returns, without raising, one entry per known line, each with one value
\* per month: a repeated scalar, a short list padded with its last element,
\* a long list truncated, the default for an absent line.
C6_NormalizerShape ==
    ModelNormalized =>
        /\ pc = "constructed"
        /\ DOMAIN capacities = LineSet
        /\ \A l \in LineSet :
              /\ Len(capacities[l]) = NumMonths
              /\ LET cap == CapGet(capsIn, l)
                 IN (cap.isList => cap.list # <<>>) => capacities[l] = ShapeOf(cap)

\* C8: on every capacities input the model's normalizer and the two report
\* normalizers all fail, or all return the same vector for every line.
C8_SameNormalization ==
    (ModelNormalized /\ xlCaps.done /\ apiCaps.done) =>
        /\ (pc = "constructed") = xlCaps.ok
        /\ xlCaps.ok = apiCaps.ok
        /\ (pc = "constructed" /\ xlCaps.ok /\ apiCaps.ok) =>
              (capacities = xlCaps.caps /\ xlCaps.caps = apiCaps.caps)

(***************************************************************************)
(* Properties of the chained parts (specification SpecChain)               *)
(***************************************************************************)
\* C4: among the feasible assignments with the least total unmet demand, an
\* OPTIMAL result has the least number of part-months with use_sub = 1.
C4_FlagsBeforeQuantity ==
    (Solved /\ result.status = "OPTIMAL") =>
        LET feas == FeasibleSet
            least == MinOf({TotalUnmet(b) : b \in feas})
            tier1 == {b \in feas : TotalUnmet(b) = least}
        IN FlagCount(sol) = MinOf({FlagCount(b) : b \in tier1})

(***************************************************************************)
(* Properties of template mode (specification SpecTemplate)                *)
(***************************************************************************)
\* C9: in template mode the plan of every load-rate pattern loads no line of
\* the capacity sheet, in any month, above floor(the capacity the sheet
\* gives that line for that month * rate).
C9_TemplateCeiling ==
    (Solved /\ rateIdx >= 1) =>
        \A l \in DOMAIN sheet : \A m \in Months :
            result.line_loads[l][m] <= FloorTimesRate(CellInt(sheet[l][m]), rate)

(***************************************************************************)
(* Further properties of a solved or failed run (specification Spec)       *)
(***************************************************************************)
\* parts with a demand and a spec that has no eligible line
SkippedParts ==
    {p \in DOMAIN demands : p \in DOMAIN specs /\ get_eligible_lines(specs[p]) = <<>>}

\* C11: a part whose spec has no eligible line is surfaced by the result:
\* the result has no field for skipped parts, so its whole demand is
\* reported as unmet.
C11_SkippedSurfaced ==
    Solved =>
        \A p \in SkippedParts : \A m \in Months : UnmetAt(p, m) = demands[p][m]

\* a collection field that is set and empty
IsEmptyCollection(v) == v # None /\ DOMAIN v = {}

\* C12: a solve that ends in a status other than OPTIMAL / FEASIBLE returns
\* that status, no objective value, and allocation, line_loads,
\* sub_line_usage and unmet_demand as empty collections; no solved value is
\* read.
C12_FailedIsEmpty ==
    pc = "failed" =>
        /\ result.status \in {"INFEASIBLE", "MODEL_INVALID", "UNKNOWN"}
        /\ result.objective_value = NoValue
        /\ sol = NoSol
        /\ result.allocation = <<>>
        /\ result.line_loads = <<>>
        /\ result.sub_line_usage = <<>>
        /\ IsEmptyCollection(result.unmet_demand)

\* x = 0, unmet = demand, use_sub = 0
ZeroAssignment ==
    [x |-> [k \in DOMAIN x |-> 0],
     unmet |-> [k \in DOMAIN unmet_demand |-> demands[k[1]][k[2]]],
     use_sub |-> [k \in DOMAIN use_sub |-> 0]]

NonNegativeCapacities ==
    \A l \in DOMAIN capacities : \A m \in Months : capacities[l][m] >= 0

\* C13: with non-negative demands and capacities and a load rate in (0, 1],
\* the assignment x = 0, unmet = demand, use_sub = 0 satisfies every
\* constraint and bound of the built model, and the solve does not end
\* INFEASIBLE or MODEL_INVALID.
C13_AlwaysFeasible ==
    (pc \in {"built", "solved", "failed"} /\ NonNegativeCapacities) =>
        /\ Feasible(ZeroAssignment)
        /\ pc = "failed" => result.status \notin {"INFEASIBLE", "MODEL_INVALID"}

\* a built model in which a line with demand on it has a ceiling of 0
C13_Witness ==
    /\ pc = "built"
    /\ NonNegativeCapacities
    /\ \E k \in DOMAIN x :
          /\ IntTimesRate(get_capacity(k[2], k[3]), rate) = 0
          /\ demands[k[1]][k[3]] > 0

\* C14: for every part with a main line and every month, a positive
\* allocation on a line other than the main line makes the report count
\* the part-month as sub-line usage, also when the main line carries nothing.
C14_SubUseCounted ==
    Solved =>
        \A p \in DOMAIN result.allocation : \A m \in Months :
            (/\ IsSet(specs[p].main_line)
             /\ \E l \in DOMAIN result.allocation[p] :
                   l # specs[p].main_line /\ result.allocation[p][l][m] > 0)
                => CountsAsSubUse(result.sub_line_usage[p][m])

Min(a, b) == IF a <= b THEN a ELSE b

\* the ceiling of constraint 2 for a line and a month
CeilingAt(l, m) == IntTimesRate(get_capacity(l, m), rate)

\* the run has the single part A, and its result is OPTIMAL
SinglePartOptimal ==
    /\ Solved
    /\ result.status = "OPTIMAL"
    /\ DOMAIN demands = {"A"}
    /\ "A" \in DOMAIN specs

\* C18: for one part whose only eligible line is its main line, with ceiling
\* c[m] and demand d[m], the OPTIMAL result allocates min(d[m], c[m]) to the
\* main line and reports max(0, d[m] - c[m]) unmet in every month, uses no
\* sub line, and leaves the part out of unmet_demand exactly when
\* d[m] <= c[m] in all months.
C18_MainOnly ==
    (/\ SinglePartOptimal
     /\ IsSet(specs["A"].main_line)
     /\ get_eligible_lines(specs["A"]) = <<specs["A"].main_line>>) =>
        LET main == specs["A"].main_line
            d == demands["A"]
        IN /\ \A m \in Months :
                 /\ AllocationAt("A", main, m) = Min(d[m], CeilingAt(main, m))
                 /\ UnmetAt("A", m) = d[m] - Min(d[m], CeilingAt(main, m))
                 /\ \A l \in SeqSet(result.sub_line_usage["A"][m]) : l = main
           /\ DOMAIN sol.use_sub = {}
           /\ ("A" \notin DOMAIN result.unmet_demand)
                 <=> (\A m \in Months : d[m] <= CeilingAt(main, m))

\* an OPTIMAL result of a main-line-only part that is short in one month and
\* fully served in another
C18_Witness ==
    /\ SinglePartOptimal
    /\ get_eligible_lines(specs["A"]) = <<L1>>
    /\ \E m1, m2 \in Months :
          /\ UnmetAt("A", m1) > 0 /\ AllocationAt("A", L1, m1) > 0
          /\ UnmetAt("A", m2) = 0 /\ AllocationAt("A", L1, m2) > 0

SolvedX(p, l, m) == IF <<p, l, m>> \in DOMAIN sol.x THEN sol.x[<<p, l, m>>] ELSE 0

\* the solved value of unmet[p, m], 0 where no such variable exists
SolvedUnmet(p, m) == IF <<p, m>> \in DOMAIN sol.unmet THEN sol.unmet[<<p, m>>] ELSE 0

\* C20: in a successful result allocation[p] holds line l exactly when some
\* solved x[p, l, m] is positive, and then the solved values; line_loads of
\* every known line is the sum of the solved x over the parts; unmet_demand
\* holds part p exactly when some solved unmet[p, m] is positive, and then
\* the solved values.
C20_Projection ==
    Solved =>
        /\ \A p \in DOMAIN result.allocation : \A l \in LineSet :
              /\ (l \in DOMAIN result.allocation[p])
                    <=> (\E m \in Months : SolvedX(p, l, m) > 0)
              /\ l \in DOMAIN result.allocation[p] =>
                    result.allocation[p][l] = [m \in Months |-> SolvedX(p, l, m)]
        /\ \A l \in LineSet : \A m \in Months :
              result.line_loads[l][m]
                 = SumOver([p \in DOMAIN demands |-> SolvedX(p, l, m)], DOMAIN demands)
        /\ \A p \in DOMAIN demands :
              /\ (p \in DOMAIN result.unmet_demand)
                    <=> (\E m \in Months : SolvedUnmet(p, m) > 0)
              /\ p \in DOMAIN result.unmet_demand =>
                    result.unmet_demand[p] = [m \in Months |-> SolvedUnmet(p, m)]

\* a successful result with two parts on one line, one of them with unmet
\* demand and the other without
C20_Witness ==
    /\ Solved
    /\ \E l \in LineSet : \E m \in Months :
          /\ SolvedX("A", l, m) > 0
          /\ "B" \in DOMAIN demands /\ SolvedX("B", l, m) > 0
    /\ \E p, q \in DOMAIN demands :
          /\ p \in DOMAIN result.unmet_demand
          /\ q \notin DOMAIN result.unmet_demand
          /\ \E m \in Months : demands[q][m] > 0

(***************************************************************************)
(* A caller that runs optimize() a second time (specification SpecAgain),  *)
(* as run_with_template and the work-pattern runs of main.py do: with the  *)
(* same arguments, with every capacity scaled by the load rate and the     *)
(* rate set to 1.0, or with one capacity of one month raised by one.       *)
(***************************************************************************)
\* floor(c * r) on every line and month
ScaledCaps ==
    [l \in LineSet |-> List([m \in Months |-> FloorTimesRate(capacities[l][m], rate)])]

\* the capacity of line l0 in month m0 raised by one
RaisedCaps(l0, m0) ==
    [l \in LineSet |->
        List([m \in Months |->
                IF l = l0 /\ m = m0 THEN capacities[l][m] + 1 ELSE capacities[l][m]])]

\* what is kept of the call that just returned
Kept(mode) ==
    [done |-> TRUE, mode |-> mode,
     ceilings |-> [l \in LineSet |-> [m \in Months |-> CeilingAt(l, m)]],
     feas |-> FeasibleSet, M |-> M, result |-> result, sol |-> sol]

\* optimize(specs, demands, capacities', ..., load_rate_limit = rate') after
\* a call that returned OPTIMAL
CallAgain ==
    /\ pc = "solved"
    /\ result.status = "OPTIMAL"
    /\ ~first.done
    /\ \/ /\ first' = Kept("same")
          /\ UNCHANGED <<capsIn, rate>>
       \/ /\ first' = Kept("scaled")
          /\ capsIn' = ScaledCaps
          /\ rate' = 100
       \/ \E l0 \in {L1, L2}, m0 \in Months :
             /\ first' = Kept("raised")
             /\ capsIn' = RaisedCaps(l0, m0)
             /\ UNCHANGED rate
    /\ pc' = "new"
    /\ capacities' = <<>>
    /\ x' = <<>>
    /\ use_sub' = <<>>
    /\ unmet_demand' = <<>>
    /\ M' = 0
    /\ sol' = NoSol
    /\ result' = NoResult
    /\ UNCHANGED <<request, response, other, plan_infos, specs, demands, sheet, rateIdx, xlCaps, apiCaps>>

\* a part with a main and a sub line, a part with two lines and no main
\* line, a main-line-only part
AgainShapes == {PartSpec(L1, L2, None), PartSpec(None, L1, L2), PartSpec(L1, None, None)}

\* non-negative capacities
AgainCaps ==
    {(L1 :> c1) @@ r2 :
        c1 \in {Scalar(1), List(FallingCaps)},
        r2 \in {<<>>, (L2 :> Scalar(1))}}

\* demands of 1 or MaxDemand in every month
AgainDemands == [Months -> {1, MaxDemand}]

InitAgain ==
    /\ pc = "new"
    /\ \E shapeA \in AgainShapes, b \in {"absent", "main"}, dA \in AgainDemands :
          /\ specs = SmallSpecs(shapeA, b)
          /\ demands = SmallDemands(dA, b)
    /\ capsIn \in AgainCaps
    /\ rate \in Rates
    /\ sheet = <<>>
    /\ rateIdx = 0
    /\ Fresh

NextAgain == Construct \/ BuildModel \/ Solve \/ CallAgain

SpecAgain == InitAgain /\ [][NextAgain]_vars

(***************************************************************************)
(* Properties of two calls (specification SpecAgain)                       *)
(***************************************************************************)
SecondOptimal(mode) ==
    /\ first.done
    /\ first.mode = mode
    /\ Solved
    /\ result.status = "OPTIMAL"

C16_MonotoneCapacity ==
    SecondOptimal("raised") => TotalUnmet(sol) <= TotalUnmet(first.sol)

\* a raised capacity that lowers the total unmet demand
C16_Witness ==
    /\ SecondOptimal("raised")
    /\ TotalUnmet(sol) < TotalUnmet(first.sol)

\* C17: two calls with identical arguments that both end OPTIMAL return the
\* same objective value and the same total unmet demand.
C17_SameObjective ==
    SecondOptimal("same") =>
        /\ result.objective_value = first.result.objective_value
        /\ TotalUnmet(sol) = TotalUnmet(first.sol)

\* two OPTIMAL calls with identical arguments that differ in the allocation
C17_Witness ==
    /\ SecondOptimal("same")
    /\ result.allocation # first.result.allocation

(***************************************************************************)
(* Value ranges of a successful result (specification Spec)                *)
(***************************************************************************)
\* C26: in a successful result every value of every allocation, line_loads
\* and unmet_demand vector is an integer >= 0, and every allocation and unmet
\* value of a part and month is at most the part's demand of that month.
C26_NonNegative ==
    Solved =>
        /\ \A p \in DOMAIN result.allocation : \A l \in DOMAIN result.allocation[p] :
              \A m \in Months :
                 /\ result.allocation[p][l][m] \in Nat
                 /\ result.allocation[p][l][m] <= demands[p][m]
        /\ \A l \in DOMAIN result.line_loads : \A m \in Months :
              result.line_loads[l][m] \in Nat
        /\ \A p \in DOMAIN result.unmet_demand : \A m \in Months :
              /\ result.unmet_demand[p][m] \in Nat
              /\ result.unmet_demand[p][m] <= demands[p][m]

\* a successful result of a part whose demand differs between the months and
\* whose allocation and unmet demand both reach the smaller month's demand
C26_Witness ==
    /\ Solved
    /\ \E p \in DOMAIN result.allocation : \E l \in DOMAIN result.allocation[p] :
          \E m1, m2 \in Months :
             /\ demands[p][m1] < demands[p][m2]
             /\ result.allocation[p][l][m1] = demands[p][m1]
             /\ result.allocation[p][l][m1] > 0
             /\ p \in DOMAIN result.unmet_demand
             /\ result.unmet_demand[p][m2] > 0

(***************************************************************************)
(* Where an OPTIMAL result puts the production (specification Spec)        *)
(***************************************************************************)
\* the ceiling the specification states for a line and a month
FloorCeilingAt(l, m) == FloorTimesRate(get_capacity(l, m), rate)

\* the load the result reports for a line and a month
LoadAt(l, m) == IF l \in DOMAIN result.line_loads THEN result.line_loads[l][m] ELSE 0

OnSubLine(p, m) ==
    \E l \in DOMAIN result.allocation[p] :
        l # specs[p].main_line /\ result.allocation[p][l][m] > 0

\* C28: in every OPTIMAL result, a part with a main line that has a positive
\* allocation on a sub line in a month has its main line loaded exactly to
\* floor(capacity * load_rate_limit) in that month.
C28_MainLineFirst ==
    (Solved /\ result.status = "OPTIMAL") =>
        \A p \in PlacedParts : \A m \in Months :
            (IsSet(specs[p].main_line) /\ OnSubLine(p, m)) =>
                LoadAt(specs[p].main_line, m) = FloorCeilingAt(specs[p].main_line, m)

(***************************************************************************)
(* A caller that gives a capacity for every known line, so that no default *)
(* enters the Big-M (specification SpecFull)                               *)
(***************************************************************************)
\* a capacity for L1 and for L2, and 0 for every other line
FullCaps ==
    {[l \in LineSet |-> Scalar(IF l = L1 THEN c1 ELSE IF l = L2 THEN c2 ELSE 0)] :
        c1 \in 0..MaxCap, c2 \in 0..MaxCap}

\* main and sub, main and two subs, two lines without a main line, a sub
\* that repeats the main line
FullShapes ==
    {PartSpec(L1, L2, None), PartSpec(L1, L2, L3), PartSpec(None, L1, L2),
     PartSpec(L1, L1, L2)}

InitFull ==
    /\ pc = "new"
    /\ \E shapeA \in FullShapes, b \in BVariants, dA \in DemandVectors :
          /\ specs = SmallSpecs(shapeA, b)
          /\ demands = SmallDemands(dA, b)
    /\ capsIn \in FullCaps
    /\ rate \in Rates
    /\ sheet = <<>>
    /\ rateIdx = 0
    /\ Fresh

SpecFull == InitFull /\ [][Next]_vars

\* 1 when the x values f of part p put a positive quantity on a line other
\* than the part's main line in month m, else 0
SubFlag(f, p, m) ==
    IF \E k \in DOMAIN f :
          k[1] = p /\ k[3] = m /\ k[2] # specs[p].main_line /\ f[k] > 0
    THEN 1 ELSE 0

\* the values of x and unmet of one (part, month) inside their bounds and
\* satisfying constraint 1, with use_sub set by SubFlag; constraint 3 is
\* not looked at
BalancedChoices(p, m) ==
    LET xk == {k \in DOMAIN x : k[1] = p /\ k[3] = m}
        fk == {k \in DOMAIN use_sub : k = <<p, m>>}
        xs == DepProd([k \in xk |-> Window(x[k])])
        us(f) == {u \in unmet_demand[<<p, m>>].lo .. unmet_demand[<<p, m>>].hi :
                     DemandBalanceAt([x |-> f, unmet |-> (<<p, m>> :> u)], p, m)}
    IN UNION {{[x |-> f, unmet |-> (<<p, m>> :> u),
                use_sub |-> [k \in fk |-> SubFlag(f, p, m)]] : u \in us(f)}
              : f \in xs}

\* the assignments that satisfy constraints 1 and 2
BalancedSet ==
    Joined([m \in Months |->
        {a \in Joined([p \in ModelledParts |-> BalancedChoices(p, m)]) :
            \A line \in LineSet : CapacityAt(a, line, m)}])

\* C27: with non-negative capacities, every allocation that satisfies demand
\* balance and the capacity ceiling satisfies the whole built model, the
\* linkage x[p, sub, m] <= M * use_sub[p, m] included, once use_sub is 1 for
\* the part-months with sub-line production; and every feasible assignment
\* has use_sub[p, m] = 1 where a sub line of p carries production in month m.
C27_BigMSafe ==
    (pc = "built" /\ NonNegativeCapacities) =>
        /\ \A a \in BalancedSet : Feasible(a)
        /\ \A a \in FeasibleSet : \A k \in DOMAIN use_sub :
              SubFlag(a.x, k[1], k[2]) = 1 => a.use_sub[k] = 1

\* a built model whose M comes from the given capacities alone, and an
\* allocation in it that puts as much on a sub line as the largest capacity
C27_Witness ==
    /\ pc = "built"
    /\ M = 10 * MaxCap
    /\ \E a \in BalancedSet : \E k \in DOMAIN a.x :
          /\ <<k[1], k[3]>> \in DOMAIN use_sub
          /\ k[2] # specs[k[1]].main_line
          /\ a.x[k] = MaxCap
          /\ a.use_sub[<<k[1], k[3]>>] = 1

(***************************************************************************)
(* What an optimize() call leaves of its arguments (specification Spec)    *)
(***************************************************************************)
\* C25: no step of an optimize() call (constructor, build_model, solve)
\* changes the specs mapping, a monthly_demand list or the capacities mapping
\* and its per-line lists, whether the solve succeeds or fails.
C25_InputsKept ==
    [][(pc \in {"new", "constructed", "built"}) =>
          (specs' = specs /\ demands' = demands /\ capsIn' = capsIn)]_vars

\* a call that has failed, and a call that has succeeded, on a capacities
\* mapping whose 12-month list the optimizer took over as it is
C25_Witness ==
    /\ pc \in {"solved", "failed"}
    /\ result.status \in {"OPTIMAL", "UNKNOWN"}
    /\ L1 \in DOMAIN capsIn
    /\ capsIn[L1].isList
    /\ capacities[L1] = capsIn[L1].list
    /\ L2 \notin DOMAIN capsIn

(***************************************************************************)
(* api.py: the endpoints /optimize, /optimize/simple and                   *)
(* /optimize/simple/compare (specification SpecApi).  A request is         *)
(*   [endpoint, rows, capacities, rates]:                                  *)
(* rows are the parts (PartInput, or a row of parts_data with its cells    *)
(* read), capacities the mapping given (capacities, or capacities_data     *)
(* with its cells read), rates the load_rate_limit (one element) or the    *)
(* load_rate_patterns (empty when omitted) in percent.                     *)
(***************************************************************************)
Row(part, main, sub1, sub2, monthly) ==
    [part |-> part, main_line |-> main, sub1_line |-> sub1, sub2_line |-> sub2,
     monthly |-> monthly]

\* sub1_line if sub1_line in DISC_LINES else None
KnownOrNone(l) == IF l \in LineSet THEN l ELSE None

\* max(0, val) on every element
Clamp(s) == [i \in 1..Len(s) |-> IF s[i] < 0 THEN 0 ELSE s[i]]

\* the last row of rows that carries the part number p
LastRowOf(rows, p) == rows[MaxOf({i \in 1..Len(rows) : rows[i].part = p})]

\* run_optimization, "入力データを変換": HTTP 400 for an unknown main line or
\* a demand that is not 12 months long; a later part of the same number
\* replaces an earlier one
ParseOptimize(rows) ==
    IF \E i \in 1..Len(rows) :
          rows[i].main_line \notin LineSet \/ Len(rows[i].monthly) # NumMonths
    THEN [ok |-> FALSE, specs |-> <<>>, demands |-> <<>>]
    ELSE LET parts == {rows[i].part : i \in 1..Len(rows)}
         IN [ok |-> TRUE,
             specs |-> [p \in parts |->
                          LET r == LastRowOf(rows, p)
                          IN PartSpec(r.main_line, KnownOrNone(r.sub1_line),
                                      KnownOrNone(r.sub2_line))],
             demands |-> [p \in parts |-> LastRowOf(rows, p).monthly]]

\* _parse_simple_request: the row is not skipped by a "continue"
SimpleAccepts(row) ==
    /\ row.part # ""
    /\ IsSet(row.main_line)
    /\ row.main_line \in LineSet
    /\ SumSeq(Clamp(row.monthly)) # 0

\* the months of the later row put in place of the sum
KeepLatest(d, monthly) == monthly

\* existing.monthly_demand[i] += monthly[i]
AddMonthly(d, monthly) == [i \in 1..Len(d) |-> d[i] + monthly[i]]

RECURSIVE ParseSimpleRows(_, _, _)
\* _parse_simple_request, the loop over parts_data, with the specs and
\* demands collected so far
ParseSimpleRows(rows, sp, dm) ==
    IF rows = <<>> THEN [specs |-> sp, demands |-> dm]
    ELSE LET row == Head(rows)
             p == row.part
             monthly == Clamp(row.monthly)
         IN IF ~SimpleAccepts(row) THEN ParseSimpleRows(Tail(rows), sp, dm)
            ELSE ParseSimpleRows(
                    Tail(rows),
                    IF p \in DOMAIN sp THEN sp
                    ELSE sp @@ (p :> PartSpec(row.main_line, KnownOrNone(row.sub1_line),
                                              KnownOrNone(row.sub2_line))),
                    IF p \in DOMAIN dm THEN [dm EXCEPT ![p] = AddMonthly(dm[p], monthly)]
                    ELSE dm @@ (p :> monthly))

\* _parse_simple_request: HTTP 400 when no part is left
ParseSimple(rows) ==
    LET r == ParseSimpleRows(rows, <<>>, <<>>)
    IN [ok |-> DOMAIN r.specs # {}, specs |-> r.specs, demands |-> r.demands]

\* _parse_simple_request, capacities_data: a row of 12 months is clamped,
\* a single value is taken as it is, an unknown line is skipped
ParseCapacityRows(caps) ==
    [l \in (DOMAIN caps) \cap LineSet |->
        IF caps[l].isList THEN List(Clamp(caps[l].list)) ELSE caps[l]]

\* the capacities handed to optimize(): what was given (the default table
\* when /optimize is given none), and the default for every missing line
ApiCapacities(req) ==
    LET given == IF req.endpoint = "optimize" THEN req.capacities
                 ELSE ParseCapacityRows(req.capacities)
    IN [l \in LineSet |-> CapGet(given, l)]

\* the load rates optimize() is called with, in order: load_rate_limit, or
\* request.load_rate_patterns or LOAD_RATE_PATTERNS
ApiRates(req) ==
    IF req.endpoint = "compare" /\ req.rates = <<>> THEN LOAD_RATE_PATTERNS ELSE req.rates

ApiParsed(req) ==
    IF req.endpoint = "optimize" THEN ParseOptimize(req.rows) ELSE ParseSimple(req.rows)

\* HTTPException(status_code = code)
HttpError(code) ==
    [done |-> TRUE, http |-> code, success |-> FALSE, statuses |-> <<>>,
     line_loads |-> <<>>, capacities |-> <<>>, results |-> <<>>]

\* the endpoint up to its first call of optimize()
ApiReceive ==
    /\ pc = "request"
    /\ request.endpoint \in {"optimize", "simple", "compare"}
    /\ LET parsed == ApiParsed(request)
       IN IF parsed.ok
          THEN /\ specs' = parsed.specs
               /\ demands' = parsed.demands
               /\ capsIn' = ApiCapacities(request)
               /\ rate' = ApiRates(request)[1]
               /\ rateIdx' = 1
               /\ pc' = "new"
               /\ UNCHANGED response
          ELSE /\ response' = HttpError(400)
               /\ pc' = "rejected"
               /\ UNCHANGED <<specs, demands, capsIn, rate, rateIdx>>
    /\ UNCHANGED <<request, other, plan_infos, first, capacities, x, use_sub, unmet_demand, M, sol,
                   result, sheet, xlCaps, apiCaps>>

\* pattern_results[rate] = result, or None after an exception
PatternResult == [raised |-> pc = "raised", result |-> result]

\* result.line_loads.get(line, [0] * 12) for every line
LineLoadsTable(res) ==
    [line \in LineSet |->
        IF line \in DOMAIN res.line_loads THEN res.line_loads[line]
        ELSE Repeat(0, NumMonths)]

Succeeded(res) == res.status \in {"OPTIMAL", "FEASIBLE"}

\* the response of /optimize and /optimize/simple
OptimizeResponse(res, caps) ==
    [done |-> TRUE, http |-> 200,
     success |-> Succeeded(res),
     statuses |-> <<res.status>>,
     line_loads |-> <<LineLoadsTable(res)>>,
     capacities |-> api_normalize_caps(caps).caps,
     results |-> <<>>]

\* the response of /optimize/simple/compare for the pattern results rs
CompareResponse(rs, caps) ==
    [done |-> TRUE, http |-> 200,
     success |-> \E i \in 1..Len(rs) : ~rs[i].raised /\ Succeeded(rs[i].result),
     statuses |-> [i \in 1..Len(rs) |->
                     IF rs[i].raised THEN "ERROR" ELSE rs[i].result.status],
     line_loads |-> [i \in 1..Len(rs) |->
                     IF rs[i].raised THEN <<>> ELSE LineLoadsTable(rs[i].result)],
     capacities |-> api_normalize_caps(caps).caps,
     results |-> <<>>]

\* /optimize/simple/compare, for rate in patterns: the next pattern
ApiNextPattern ==
    /\ request.endpoint = "compare"
    /\ pc \in {"solved", "failed", "raised"}
    /\ rateIdx < Len(ApiRates(request))
    /\ response' = [done |-> FALSE, results |-> Append(response.results, PatternResult)]
    /\ rateIdx' = rateIdx + 1
    /\ rate' = ApiRates(request)[rateIdx + 1]
    /\ pc' = "new"
    /\ capacities' = <<>>
    /\ x' = <<>>
    /\ use_sub' = <<>>
    /\ unmet_demand' = <<>>
    /\ M' = 0
    /\ sol' = NoSol
    /\ result' = NoResult
    /\ UNCHANGED <<request, other, plan_infos, first, specs, demands, capsIn, sheet, xlCaps, apiCaps>>

\* the endpoint after its last call of optimize(): the response, or the
\* HTTP 500 of an exception that /optimize and /optimize/simple let out
ApiRespond ==
    /\ request.endpoint \in {"optimize", "simple", "compare"}
    /\ pc \in {"solved", "failed", "raised"}
    /\ rateIdx = Len(ApiRates(request))
    /\ response' =
          IF request.endpoint = "compare"
          THEN CompareResponse(Append(response.results, PatternResult), capsIn)
          ELSE IF pc = "raised" THEN HttpError(500)
          ELSE OptimizeResponse(result, capsIn)
    /\ pc' = "responded"
    /\ UNCHANGED <<request, other, plan_infos, first, specs, demands, capsIn, rate, capacities, x,
                   use_sub, unmet_demand, M, sol, result, sheet, rateIdx, xlCaps, apiCaps>>

\* requests: one part or two, a repeated part number, an unknown main line;
\* no capacities, a tight line, an empty list; a load rate inside and
\* outside (0, 1]
ApiRows ==
    {<<Row("A", L1, L2, None, dA)>> : dA \in {<<1, MaxDemand>>, <<MaxDemand, MaxDemand>>}}
      \cup {<<Row("A", L1, L2, "X", <<MaxDemand, 1>>), Row("B", L1, None, None, <<1, 1>>)>>,
            <<Row("A", L1, None, None, <<1, 0>>), Row("A", L2, None, None, <<0, 1>>)>>,
            <<Row("A", "X", None, None, <<1, 1>>)>>}

\* the compare endpoint solves once per pattern: one part, on one line or two
CompareRows ==
    {<<Row("A", L1, None, None, <<1, MaxDemand>>)>>, <<Row("A", L1, L2, None, <<1, 1>>)>>,
     <<Row("A", "X", None, None, <<1, 1>>)>>}

ApiCaps ==
    {<<>>, (L1 :> Scalar(1)), (L1 :> Scalar(1)) @@ (L2 :> List(<<1, 0>>)),
     (L1 :> List(<<>>))}

ApiRequests ==
    {[endpoint |-> e, rows |-> rs, capacities |-> cs, rates |-> <<r>>] :
        e \in {"optimize", "simple"}, rs \in ApiRows, cs \in ApiCaps, r \in {50, 100, 200}}
      \cup {[endpoint |-> "compare", rows |-> rs, capacities |-> cs, rates |-> pats] :
               rs \in CompareRows, cs \in ApiCaps, pats \in {<<>>, <<100, 200>>}}

InitApi ==
    /\ pc = "request"
    /\ request \in ApiRequests
    /\ response = [done |-> FALSE, results |-> <<>>]
    /\ other = NoOther
    /\ specs = <<>>
    /\ demands = <<>>
    /\ capsIn = <<>>
    /\ rate = 100
    /\ sheet = <<>>
    /\ rateIdx = 0
    /\ FreshRun

NextApi == ApiReceive \/ Construct \/ BuildModel \/ Solve \/ ApiNextPattern \/ ApiRespond

SpecApi == InitApi /\ [][NextApi]_vars

(***************************************************************************)
(* Properties of the API responses (specification SpecApi)                 *)
(***************************************************************************)
\* C23: every result whose status is not OPTIMAL and not FEASIBLE is handed
\* on as a failure: a response carries success = false exactly when the
\* status of a result it reports is outside {OPTIMAL, FEASIBLE}.
C23_FailureNotAPlan ==
    (response.done /\ response.http = 200) =>
        \A i \in 1..Len(response.statuses) :
            (response.success = FALSE)
               <=> (response.statuses[i] \notin {"OPTIMAL", "FEASIBLE"})

\* C24: every line-month load of a successful result in a response is at
\* most the line's capacity of that month, and no load rate outside (0, 1]
\* reaches optimize().
C24_ApiCeiling ==
    /\ (response.done /\ response.http = 200) =>
          \A i \in 1..Len(response.statuses) :
              response.statuses[i] \in {"OPTIMAL", "FEASIBLE"} =>
                  \A l \in LineSet : \A m \in Months :
                      response.line_loads[i][l][m] <= response.capacities[l][m]
    /\ (request.endpoint # "" /\ pc \in {"new", "constructed", "built", "solved", "failed"}) =>
          (0 < rate /\ rate <= 100)

(***************************************************************************)
(* The entry paths that read rows (specification SpecEntry): the CLI files *)
(* (main.py main), template mode with the parts-master sheet               *)
(* (run_with_template), spreadsheet mode (run_with_spreadsheet) and the    *)
(* API endpoints /optimize and /optimize/simple.  A request of a file mode *)
(* is  [endpoint, rows, spec_rows, master, capacities, rates]:  rows are   *)
(* the disc rows of the production plan or the rows of the input sheet,    *)
(* spec_rows the rows of the equipment spec file, master the rows of the   *)
(* parts-master sheet, capacities the mapping the mode's capacity loader   *)
(* returned.  A line cell is the text of the cell.                         *)
(***************************************************************************)
\* data_loader.normalize_line_name, on the cells the inputs below use: an
\* empty cell is None, a leading M is removed, three digits get a 4 in
\* front when that names a known line, any other text is returned as it is
normalize_line_name(cell) ==
    CASE cell = None -> None
      [] cell = "" -> None
      [] cell = "M4915" -> "4915"
      [] cell = "919" -> "4919"
      [] OTHER -> cell

\* parts[part_num] = ...: a later entry of the same key replaces the earlier
Overwrite(f, k, v) == [j \in (DOMAIN f) \cup {k} |-> IF j = k THEN v ELSE f[j]]

RECURSIVE load_equipment_spec(_, _)
\* data_loader.load_equipment_spec, the loop over the rows: a part is
\* registered when its main line is a disc line, its sub lines are kept when
\* they are disc lines
load_equipment_spec(rows, parts) ==
    IF rows = <<>> THEN parts
    ELSE LET row == Head(rows)
             main_line == normalize_line_name(row.main_line)
         IN IF row.part = "" \/ ~IsSet(main_line) \/ main_line \notin LineSet
            THEN load_equipment_spec(Tail(rows), parts)
            ELSE load_equipment_spec(
                    Tail(rows),
                    Overwrite(parts, row.part,
                              PartSpec(main_line,
                                       KnownOrNone(normalize_line_name(row.sub1_line)),
                                       KnownOrNone(normalize_line_name(row.sub2_line)))))

\* load_production_plan: the row is not skipped by a "continue"
PlanAccepts(row) ==
    /\ normalize_line_name(row.main_line) \in LineSet
    /\ row.part # ""

RECURSIVE load_production_plan(_, _, _)
\* data_loader.load_production_plan, the loop over the disc rows, with the
\* demands and plan_infos collected so far: the line ids of a part are those
\* of its first row, a row adds to the demand when its months sum above zero
load_production_plan(rows, dm, infos) ==
    IF rows = <<>> THEN [demands |-> dm, plan_infos |-> infos]
    ELSE LET row == Head(rows)
             p == row.part
             monthly == Clamp(row.monthly)
         IN IF ~PlanAccepts(row) THEN load_production_plan(Tail(rows), dm, infos)
            ELSE load_production_plan(
                    Tail(rows),
                    IF SumSeq(monthly) > 0
                    THEN IF p \in DOMAIN dm
                         THEN [dm EXCEPT ![p] = AddMonthly(dm[p], monthly)]
                         ELSE dm @@ (p :> monthly)
                    ELSE dm,
                    IF p \in DOMAIN infos THEN infos
                    ELSE infos @@ (p :> PartSpec(normalize_line_name(row.main_line),
                                                 KnownOrNone(normalize_line_name(row.sub1_line)),
                                                 KnownOrNone(normalize_line_name(row.sub2_line)))))

\* sheets_io.read_input_sheet: the row is not skipped by a "continue"
SheetAccepts(row) ==
    /\ row.part # ""
    /\ IsSet(normalize_line_name(row.main_line))
    /\ normalize_line_name(row.main_line) \in LineSet

RECURSIVE read_input_sheet(_, _, _)
\* sheets_io.read_input_sheet, the loop over the rows, with the specs and
\* demands collected so far
read_input_sheet(rows, sp, dm) ==
    IF rows = <<>> THEN [specs |-> sp, demands |-> dm]
    ELSE LET row == Head(rows)
             p == row.part
             monthly == Clamp(row.monthly)
         IN IF ~SheetAccepts(row) THEN read_input_sheet(Tail(rows), sp, dm)
            ELSE read_input_sheet(
                    Tail(rows),
                    IF p \in DOMAIN sp THEN sp
                    ELSE sp @@ (p :> PartSpec(normalize_line_name(row.main_line),
                                              KnownOrNone(normalize_line_name(row.sub1_line)),
                                              KnownOrNone(normalize_line_name(row.sub2_line)))),
                    IF SumSeq(monthly) > 0
                    THEN IF p \in DOMAIN dm
                         THEN [dm EXCEPT ![p] = AddMonthly(dm[p], monthly)]
                         ELSE dm @@ (p :> monthly)
                    ELSE dm)

RECURSIVE load_parts_master(_, _)
\* input_template.load_parts_master: every row with a part number, its line
\* cells normalized and not compared with DISC_LINES
load_parts_master(rows, parts) ==
    IF rows = <<>> THEN parts
    ELSE LET row == Head(rows)
         IN IF row.part = "" THEN load_parts_master(Tail(rows), parts)
            ELSE load_parts_master(
                    Tail(rows),
                    Overwrite(parts, row.part,
                              PartSpec(normalize_line_name(row.main_line),
                                       normalize_line_name(row.sub1_line),
                                       normalize_line_name(row.sub2_line))))

\* run_with_template, "部品マスタからの追加・上書き": for every part of the
\* master with a main line, specs[part_num] = PartSpec(...) of the master
MasterOverride(sp, parts_master) ==
    LET set == {p \in DOMAIN parts_master : IsSet(parts_master[p].main_line)}
    IN [p \in (DOMAIN sp) \cup set |-> IF p \in set THEN parts_master[p] ELSE sp[p]]

\* data_loader.merge_data: a part with a demand and no spec takes the line
\* ids of the plan; the parts with both a spec and a demand are kept
merge_data(sp, dm, infos) ==
    LET demand_only == (DOMAIN dm) \ (DOMAIN sp)
        auto == {pn \in demand_only : pn \in DOMAIN infos /\ IsSet(infos[pn].main_line)}
        completed == [pn \in (DOMAIN sp) \cup auto |-> IF pn \in auto THEN infos[pn] ELSE sp[pn]]
        common == (DOMAIN completed) \cap (DOMAIN dm)
    IN [specs |-> [pn \in common |-> completed[pn]],
        demands |-> [pn \in common |-> dm[pn]]]

\* main.py main and run_with_template up to the first call of optimize():
\* the files are loaded and merged; "return 1" when nothing is left
LoadFiles ==
    /\ pc = "request"
    /\ request.endpoint \in {"files", "template"}
    /\ LET plan == load_production_plan(request.rows, <<>>, <<>>)
           from_file == load_equipment_spec(request.spec_rows, <<>>)
           with_master == IF request.endpoint = "template"
                          THEN MasterOverride(from_file,
                                              load_parts_master(request.master, <<>>))
                          ELSE from_file
           merged == merge_data(with_master, plan.demands, plan.plan_infos)
       IN /\ plan_infos' = plan.plan_infos
          /\ IF DOMAIN merged.specs = {} \/ DOMAIN merged.demands = {}
             THEN /\ pc' = "rejected"
                  /\ UNCHANGED <<specs, demands, capsIn, rate>>
             ELSE /\ specs' = merged.specs
                  /\ demands' = merged.demands
                  /\ capsIn' = request.capacities
                  /\ rate' = LOAD_RATE_PATTERNS[1]
                  /\ pc' = "new"
    /\ UNCHANGED <<request, response, other, first, capacities, x, use_sub, unmet_demand,
                   M, sol, result, sheet, rateIdx, xlCaps, apiCaps>>

\* main.py run_with_spreadsheet up to the first call of optimize()
ReadSheet ==
    /\ pc = "request"
    /\ request.endpoint = "sheet"
    /\ LET read == read_input_sheet(request.rows, <<>>, <<>>)
       IN IF DOMAIN read.specs = {} \/ DOMAIN read.demands = {}
          THEN /\ pc' = "rejected"
               /\ UNCHANGED <<specs, demands, capsIn, rate>>
          ELSE /\ specs' = read.specs
               /\ demands' = read.demands
               /\ capsIn' = request.capacities
               /\ rate' = LOAD_RATE_PATTERNS[1]
               /\ pc' = "new"
    /\ UNCHANGED <<request, response, other, plan_infos, first, capacities, x, use_sub,
                   unmet_demand, M, sol, result, sheet, rateIdx, xlCaps, apiCaps>>

\* the monthly cells of a row: one unit in the first month, nothing, a
\* negative first cell before full months
OneUnit == [m \in Months |-> IF m = 1 THEN 1 ELSE 0]
NoUnit == [m \in Months |-> 0]
NegativeFirst == [m \in Months |-> IF m = 1 THEN -1 ELSE MaxDemand]
LastUnit == [m \in Months |-> IF m = NumMonths THEN 1 ELSE 0]
EveryMonth == [m \in Months |-> 1]

EntryMonthlies == {OneUnit, NoUnit, NegativeFirst}

\* rows of part A on the first line, written as the line id or as its last
\* three digits; a row on the second line with an unknown sub line; a row
\* of part B; a row on an unknown line; a row without a part number
EntryRowPool ==
    {Row("A", m, "", "", d) : m \in {L1, "919"}, d \in EntryMonthlies}
      \cup {Row("A", L2, "X", L1, LastUnit), Row("B", "M4915", L2, "", EveryMonth),
            Row("A", "X", "", "", EveryMonth), Row("", L1, "", "", EveryMonth)}

MaxRows == 3

EntryRows == UNION {[1..n -> EntryRowPool] : n \in 1..MaxRows}

SpecFiles ==
    {<<>>, <<Row("A", L2, "", "", <<>>)>>,
     <<Row("A", L1, "X", "", <<>>), Row("C", "X", "", "", <<>>)>>}

Masters ==
    {<<>>, <<Row("A", "X", "", "", <<>>)>>, <<Row("B", L1, "X", "", <<>>)>>,
     <<Row("A", "", L2, "", <<>>)>>}

EntryCaps == (L1 :> Scalar(1))

EntryRequests ==
    {[endpoint |-> "files", rows |-> rs, spec_rows |-> sf, master |-> <<>>,
      capacities |-> EntryCaps, rates |-> <<>>] : rs \in EntryRows, sf \in SpecFiles}
      \cup {[endpoint |-> "template", rows |-> rs, spec_rows |-> sf, master |-> ms,
             capacities |-> EntryCaps, rates |-> <<>>] :
               rs \in EntryRows, sf \in SpecFiles, ms \in Masters}
      \cup {[endpoint |-> "sheet", rows |-> rs, spec_rows |-> <<>>, master |-> <<>>,
             capacities |-> EntryCaps, rates |-> <<>>] : rs \in EntryRows}
      \cup {[endpoint |-> "simple", rows |-> rs, capacities |-> EntryCaps,
             rates |-> <<100>>] : rs \in EntryRows}
      \cup {r \in ApiRequests : r.endpoint = "optimize" /\ r.rates = <<100>>}

InitEntry ==
    /\ pc = "request"
    /\ request \in EntryRequests
    /\ response = [done |-> FALSE, results |-> <<>>]
    /\ other = NoOther
    /\ specs = <<>>
    /\ demands = <<>>
    /\ capsIn = <<>>
    /\ rate = 100
    /\ sheet = <<>>
    /\ rateIdx = 0
    /\ FreshRun

NextEntry == LoadFiles \/ ReadSheet \/ ApiReceive \/ Construct \/ BuildModel

SpecEntry == InitEntry /\ [][NextEntry]_vars

(***************************************************************************)
(* Properties of the entry paths (specification SpecEntry)                 *)
(***************************************************************************)
\* the invocation has been handed its arguments by an entry path
Entered == request.endpoint # "" /\ pc \in {"new", "constructed", "built"}

\* C22: on every entry path every PartSpec handed to optimize() has its
\* main, sub-1 and sub-2 line ids unset or in DISC_LINES, and every
\* production variable x[part, line, month] belongs to a line of DISC_LINES
\* (the lines with a capacity constraint and an entry in line_loads).
C22_LineUniverse ==
    /\ Entered =>
          \A p \in DOMAIN specs :
              {specs[p].main_line, specs[p].sub1_line, specs[p].sub2_line}
                 \subseteq LineSet \cup {None}
    /\ (Entered /\ pc = "built") => \A k \in DOMAIN x : k[2] \in LineSet

(***************************************************************************)
(* Rows of one part number (specification SpecEntry).  An accepted row is  *)
(* a row the loader of the path does not skip with "continue".             *)
(***************************************************************************)
AggregatingPaths == {"simple", "sheet", "files", "template"}

AcceptsOn(endpoint, row) ==
    IF endpoint = "simple" THEN SimpleAccepts(row)
    ELSE IF endpoint = "sheet" THEN SheetAccepts(row)
    ELSE PlanAccepts(row)

\* the demands the loader of the path returns for the rows
DemandsOf(endpoint, rows) ==
    IF endpoint = "simple" THEN ParseSimpleRows(rows, <<>>, <<>>).demands
    ELSE IF endpoint = "sheet" THEN read_input_sheet(rows, <<>>, <<>>).demands
    ELSE load_production_plan(rows, <<>>, <<>>).demands

\* the line ids the path reads off a row: /optimize/simple compares the
\* cells with DISC_LINES as they are, the file modes normalize them first
SpecOfRow(endpoint, row) ==
    IF endpoint = "simple"
    THEN PartSpec(row.main_line, KnownOrNone(row.sub1_line), KnownOrNone(row.sub2_line))
    ELSE PartSpec(normalize_line_name(row.main_line),
                  KnownOrNone(normalize_line_name(row.sub1_line)),
                  KnownOrNone(normalize_line_name(row.sub2_line)))

\* the line ids the path holds for a part once the rows are read: the
\* PartSpec, or the PartPlanInfo of the production plan
LoadedSpec(endpoint, p) ==
    IF endpoint \in {"simple", "sheet"} THEN specs[p] ELSE plan_infos[p]

Perms(n) == {f \in [1..n -> 1..n] : \A i, j \in 1..n : f[i] = f[j] => i = j}

Reorder(rows, f) == [i \in 1..Len(rows) |-> rows[f[i]]]

\* the monthly cells of a row as they are written
AsWritten(monthly) == monthly

\* the element-wise sum, over the rows of part p, of the quantities q reads
\* off a row
SumRows(rows, p, q(_)) ==
    LET mine == {i \in 1..Len(rows) : rows[i].part = p}
    IN [m \in Months |-> SumOver([i \in mine |-> q(rows[i].monthly)[m]], mine)]

TotalOf(dm) == SumOver([p \in DOMAIN dm |-> SumSeq(dm[p])], DOMAIN dm)

\* the rows are read and aggregated as the claim says, the quantities of a
\* row being q(monthly cells)
AggregationHolds(q(_)) ==
    (pc = "new" /\ request.endpoint \in AggregatingPaths) =>
        LET e == request.endpoint
            rows == request.rows
            acc == SelectSeq(rows, LAMBDA r : AcceptsOn(e, r))
            parts == {acc[i].part : i \in 1..Len(acc)}
            first_row(p) == acc[MinOf({i \in 1..Len(acc) : acc[i].part = p})]
        IN /\ DOMAIN demands \subseteq parts
           /\ \A p \in parts :
                 IF p \in DOMAIN demands THEN demands[p] = SumRows(acc, p, q)
                 ELSE SumRows(acc, p, q) = Repeat(0, NumMonths)
           /\ \A f \in Perms(Len(rows)) : DemandsOf(e, Reorder(rows, f)) = demands
           /\ TotalOf(demands)
                 = SumOver([i \in 1..Len(acc) |-> SumSeq(q(acc[i].monthly))], 1..Len(acc))
           /\ \A p \in parts : LoadedSpec(e, p) = SpecOfRow(e, first_row(p))

Args == [specs |-> specs, demands |-> demands, capsIn |-> capsIn, rate |-> rate]

\* the invocation that runs, to be resumed later
Suspended ==
    [pc |-> pc, specs |-> specs, demands |-> demands, capsIn |-> capsIn, rate |-> rate,
     capacities |-> capacities, x |-> x, use_sub |-> use_sub,
     unmet_demand |-> unmet_demand, M |-> M, sol |-> sol, result |-> result]

\* the scheduler suspends the thread that runs and resumes the other one
Switch ==
    /\ other.active
    /\ other' = [active |-> TRUE, shared |-> other.shared, thread |-> Suspended,
                 called |-> other.waiting, waiting |-> other.called]
    /\ pc' = other.thread.pc
    /\ rate' = other.thread.rate
    /\ capacities' = other.thread.capacities
    /\ x' = other.thread.x
    /\ use_sub' = other.thread.use_sub
    /\ unmet_demand' = other.thread.unmet_demand
    /\ M' = other.thread.M
    /\ sol' = other.thread.sol
    /\ result' = other.thread.result
    /\ IF other.shared
       THEN UNCHANGED <<specs, demands, capsIn>>
       ELSE /\ specs' = other.thread.specs
            /\ demands' = other.thread.demands
            /\ capsIn' = other.thread.capsIn
    /\ UNCHANGED <<request, response, plan_infos, first, sheet, rateIdx, xlCaps, apiCaps>>

\* one part on one line or on two; a tight line, a list per month, no
\* capacities at all, an empty list
TwoSpecs == {("A" :> PartSpec(L1, L2, None)), ("A" :> PartSpec(L1, None, None))}

TwoDemands == {("A" :> [m \in Months |-> IF m = 1 THEN MaxDemand ELSE 1])}

TwoCaps ==
    {(L1 :> Scalar(1)), (L1 :> List(FallingCaps)) @@ (L2 :> Scalar(1)), <<>>,
     (L1 :> List(<<>>))}

TwoArgs ==
    {[specs |-> s, demands |-> d, capsIn |-> c, rate |-> r] :
        s \in TwoSpecs, d \in TwoDemands, c \in TwoCaps, r \in Rates}

\* a thread that has been handed the arguments a and has not begun
NotBegun(a) ==
    [pc |-> "new", specs |-> a.specs, demands |-> a.demands, capsIn |-> a.capsIn,
     rate |-> a.rate, capacities |-> <<>>, x |-> <<>>, use_sub |-> <<>>,
     unmet_demand |-> <<>>, M |-> 0, sol |-> NoSol, result |-> NoResult]

\* the same objects with any two load rates, or distinct objects that differ
\* in the capacities
InitConcurrent ==
    /\ pc = "new"
    /\ \E a \in TwoArgs, b \in TwoArgs, sh \in BOOLEAN :
          /\ sh => (a.specs = b.specs /\ a.demands = b.demands /\ a.capsIn = b.capsIn)
          /\ ~sh => (a.specs = b.specs /\ a.capsIn # b.capsIn /\ a.rate = 100)
          /\ specs = a.specs
          /\ demands = a.demands
          /\ capsIn = a.capsIn
          /\ rate = a.rate
          /\ other = [active |-> TRUE, shared |-> sh, thread |-> NotBegun(b),
                      called |-> a, waiting |-> b]
    /\ request = NoRequest
    /\ response = NoResponse
    /\ sheet = <<>>
    /\ rateIdx = 0
    /\ FreshRun

NextConcurrent == Construct \/ BuildModel \/ Solve \/ Switch

SpecConcurrent == InitConcurrent /\ [][NextConcurrent]_vars

(***************************************************************************)
(* Properties of two concurrent invocations (specification SpecConcurrent) *)
(***************************************************************************)
\* what __init__ makes of the capacities argument
NormalizedArg(caps) ==
    LineOptimizer_normalize_capacities(
        IF DOMAIN caps = {} THEN [l \in LineSet |-> Scalar(DEFAULT_CAPACITIES[l])] ELSE caps)

\* the thread that runs stands where an invocation running alone on the
\* arguments it was called with can stand: its optimizer is the one built
\* from those arguments, and what it returned is a result of that optimizer
AsAlone ==
    /\ Args = other.called
    /\ pc \in {"new", "constructed", "built", "solved", "failed", "raised"}
    /\ pc \in {"constructed", "built", "solved", "failed"} =>
          (NormalizedArg(other.called.capsIn).ok
             /\ capacities = NormalizedArg(other.called.capsIn).caps)
    /\ (pc = "raised" /\ x = <<>> /\ M = 0) => ~NormalizedArg(other.called.capsIn).ok
    /\ pc \in {"built", "solved", "failed"} =>
          (x = BuildX /\ use_sub = BuildUseSub /\ unmet_demand = BuildUnmet /\ M = BigM)
    /\ pc = "solved" =>
          /\ Feasible(sol)
          /\ result.status \in {"OPTIMAL", "FEASIBLE"}
          /\ result = Success(result.status, sol)
          /\ result.status = "OPTIMAL" => \A b \in FeasibleSet : Objective(sol) <= Objective(b)
    /\ pc = "failed" =>
          /\ result.status \in {"UNKNOWN", "INFEASIBLE"}
          /\ result = Failure(result.status)
          /\ result.status = "INFEASIBLE" => FeasibleSet = {}

\* C21: two optimize() invocations whose build and solve steps interleave
\* in any order, on distinct inputs or on the same specs, demands and
\* capacities objects, each return a result they would return when run
\* alone; no step of an invocation writes an input object (the default
\* tables are never assigned to and are definitions of this module).
C21_Independent ==
    /\ [](other.active => AsAlone)
    /\ [][(other.active /\ other'.thread = other.thread) =>
             UNCHANGED <<specs, demands, capsIn>>]_vars

\* the thread that runs has returned a result while the other one, called
\* with the same objects and another load rate, stands between build_model
\* and solve
C21_Witness ==
    /\ other.active
    /\ other.shared
    /\ pc = "solved"
    /\ result.status = "OPTIMAL"
    /\ other.thread.pc = "built"
    /\ other.thread.rate # rate
    /\ DOMAIN capsIn # {}

====
